---------------------------- MODULE Spec2Model ----------------------------
(***************************************************************************)
(* q2-optitrim: the Optuna-driven search over DADA2 truncation lengths of  *)
(* q2_optitrim/_optimize.py.  One call of optimize_truncation is modelled  *)
(* as a state machine: subsample, the sequential trial loop of             *)
(* study.optimize (ask, the objective obj, tell), and the assembly of the  *)
(* two outputs.  The sampler's proposals, the denoiser's outcome and the   *)
(* passing of wall-clock time are nondeterministic.                        *)
(***************************************************************************)
EXTENDS Integers, Sequences, FiniteSets, TLC

VARIABLES
    cfg,            \* the call's arguments and the data's mode and native read lengths
    pc,             \* position in optimize_truncation
    trials,         \* study.trials, the running trial last
    best_trial_id,  \* the study's best trial (index into trials), 0 while there is none
    clock,          \* seconds elapsed since study.optimize began
    calls,          \* the invocations of the denoiser, in order
    err,            \* the exception optimize_truncation ended with, "none" otherwise
    md,             \* the returned recommended-parameters table (row key -> row)
    study_json,     \* the returned study summary (key -> value)
    df              \* obj's denoising-stats table, <<>> outside obj

vars == <<cfg, pc, trials, best_trial_id, clock, calls, err, md, study_json, df>>

-----------------------------------------------------------------------------
(* Bounds of the model *)

MaxLen == 3         \* truncation bounds, amplicon and read lengths range up to this
MaxStep == 2        \* step ranges over 0..MaxStep
MaxOverlap == 1     \* min_overlap ranges over 0..MaxOverlap
MaxTrials == 3      \* n_trials ranges over 0..MaxTrials
MaxClock == 1       \* the clock and the timeout range up to this
MaxSamples == 3     \* samples (rows) of a denoising-stats table
MaxReads == 2       \* read count of a sample

(* str(e)[:200] *)
ErrMsgLimit == 200

EmptyMap == [x \in {} |-> x]

Min(S) == CHOOSE x \in S : \A y \in S : x <= y
Max3(a, b, c) == CHOOSE x \in {a, b, c} : \A y \in {a, b, c} : y <= x


-----------------------------------------------------------------------------
(* Exact fractions <<numerator, denominator>> stand for the float scores *)

RECURSIVE GCD(_, _)
GCD(a, b) == IF b = 0 THEN a ELSE GCD(b, a % b)

Frac(n, d) == LET g == GCD(n, d) IN IF g = 0 THEN <<0, 1>> ELSE <<n \div g, d \div g>>
FracAdd(a, b) == Frac(a[1] * b[2] + b[1] * a[2], a[2] * b[2])
FracLess(a, b) == a[1] * b[2] < b[1] * a[2]
Zero == <<0, 1>>

-----------------------------------------------------------------------------
(* The inputs *)

(* timeout: int | None, as <<>> for None and <<t>> for t seconds *)
NoTimeout == <<>>
HasTimeout(c) == c.timeout # NoTimeout

(* a call on bounds of the shape of the test's, scaled down, and the data's
   mode, native read lengths and number of samples: the reverse read is shorter
   than the forward read, so that one forward proposal is infeasible and the
   other leaves a single reverse value *)
BaseConfig ==
    [ paired |-> TRUE, read_fwd |-> 3, read_rev |-> 2,
      amplicon_length |-> 3, fwd_primer_length |-> 1, rev_primer_length |-> 2,
      fraction |-> <<1, 5>>, trials |-> 1, direction |-> "maximize",
      min_trunc |-> 1, max_trunc |-> 3, step |-> 2, min_overlap |-> 1,
      threads |-> 0, timeout |-> NoTimeout, n_samples |-> 1 ]

(* every combination of bounds, step, amplicon length, overlap and read
   lengths, one trial each *)
WideConfigs ==
    { [BaseConfig EXCEPT !.paired = p, !.min_trunc = lo, !.max_trunc = hi,
                         !.step = st, !.amplicon_length = amp,
                         !.min_overlap = ov, !.read_fwd = rf,
                         !.read_rev = IF p THEN rr ELSE 0] :
        p \in BOOLEAN, lo \in 0..(MaxLen - 1), hi \in 1..MaxLen, st \in 0..MaxStep,
        amp \in 1..MaxLen, ov \in 0..MaxOverlap, rf \in 1..MaxLen, rr \in 1..MaxLen }

(* every trial budget, timeout and direction, on fixed bounds *)
DeepConfigs ==
    { [BaseConfig EXCEPT !.paired = p, !.read_rev = IF p THEN 2 ELSE 0,
                         !.trials = n, !.timeout = t, !.direction = d] :
        p \in BOOLEAN, n \in 0..MaxTrials,
        t \in {NoTimeout} \cup { <<s>> : s \in 1..MaxClock },
        d \in {"maximize", "minimize"} }

(* every subsample fraction (as numerator, denominator), primer lengths and
   thread count, on fixed bounds *)
GlueConfigs ==
    { [BaseConfig EXCEPT !.paired = p, !.read_rev = IF p THEN 2 ELSE 0,
                         !.fraction = f, !.fwd_primer_length = pf,
                         !.rev_primer_length = pr, !.threads = th] :
        p \in BOOLEAN, f \in { <<0, 1>>, <<1, 5>>, <<1, 1>>, <<3, 2>> },
        pf \in 0..1, pr \in 2..3, th \in 4..5 }

(* every number of samples in the data, on fixed bounds *)
SampleConfigs ==
    { [BaseConfig EXCEPT !.paired = p, !.read_rev = IF p THEN 2 ELSE 0,
                         !.n_samples = k] :
        p \in BOOLEAN, k \in 1..MaxSamples }

Configs == WideConfigs \cup DeepConfigs \cup GlueConfigs \cup SampleConfigs

(* a denoising-stats table: per sample of the data, the reads input and the
   reads left non-chimeric, 0 <= non-chimeric <= input *)
Rows == { [input |-> i, nonchim |-> n] : i \in 0..MaxReads, n \in 0..MaxReads }
ValidRows == { r \in Rows : r.nonchim <= r.input }
Tables(k) == [1..k -> ValidRows]

(* lengths of the messages the denoiser's exceptions carry *)
MsgLens == { ErrMsgLimit - 1, ErrMsgLimit + 1 }


-----------------------------------------------------------------------------
(* optuna's integer distribution behind trial.suggest_int(name, low, high, step) *)

(* IntDistribution rejects an empty range and a non-positive step (ValueError) *)
IntDistributionOK(low, high, step) == low <= high /\ step > 0

(* high is lowered to the last point of the grid low, low+step, ... *)
AdjustHigh(low, high, step) == high - ((high - low) % step)

(* faulty variant: the step is ignored *)
SuggestIntNoStep(low, high, step) == low..high

(* the values suggest_int can return *)
SuggestInt(low, high, step) ==
    { low + k * step : k \in 0..((AdjustHigh(low, high, step) - low) \div step) }

-----------------------------------------------------------------------------
(* obj: the search region *)

TruncFHigh(c) == Min({c.max_trunc, c.read_fwd})

min_r_need(c, trunc_f) == c.amplicon_length + c.min_overlap - trunc_f
(* faulty variant: the amplicon constraint is left out of the lower end *)
min_r_allow_NoNeed(c, trunc_f) == Max3(c.min_trunc, 0, 0)
min_r_allow(c, trunc_f) == Max3(c.min_trunc, min_r_need(c, trunc_f), 0)
max_r_allow(c, trunc_f) ==
    Min({c.max_trunc, c.read_rev, c.read_fwd + c.read_rev - trunc_f})

(* faulty variant: the boundary is pruned too *)
InfeasibleBoundary(c, trunc_f) ==
    IF c.paired
    THEN min_r_allow(c, trunc_f) >= max_r_allow(c, trunc_f)
    ELSE trunc_f <= c.amplicon_length

(* the condition under which obj raises optuna.TrialPruned *)
Infeasible(c, trunc_f) ==
    IF c.paired
    THEN min_r_allow(c, trunc_f) > max_r_allow(c, trunc_f)
    ELSE trunc_f < c.amplicon_length

(* obj: the score *)

(* str(e)[:200], on the message's length *)
Truncate(n) == Min({n, ErrMsgLimit})

RECURSIVE SumRatios(_)
SumRatios(t) ==
    IF t = <<>> THEN Zero
    ELSE FracAdd(Frac(Head(t).nonchim, Head(t).input), SumRatios(Tail(t)))

(* (df["non-chimeric"] / df["input"]).mean() *)
MeanRatio(t) == LET s == SumRatios(t) IN Frac(s[1], s[2] * Len(t))

AnyZero(t) == \E i \in 1..Len(t) : t[i].nonchim = 0

(* faulty variant: a sample without surviving reads does not force the score to 0 *)
ScoreOfMeanOnly(t) == MeanRatio(t)

ScoreOf(t) == IF AnyZero(t) THEN Zero ELSE MeanRatio(t)

-----------------------------------------------------------------------------
(* the study *)

NoValue == <<>>
NoAttr == <<>>

NewTrial(now) ==
    [ state |-> "RUNNING", params |-> EmptyMap, value |-> NoValue,
      errmsg |-> NoAttr, datetime_start |-> now ]

Cur == trials[Len(trials)]
SetCur(t) == [trials EXCEPT ![Len(trials)] = t]

(* faulty variant: an equally good later trial replaces the best *)
UpdateCacheLastWins(best, ts, id, direction) ==
    IF ts[id].state # "COMPLETE" THEN best
    ELSE IF best = 0 THEN id
    ELSE IF direction = "maximize"
         THEN (IF FracLess(ts[id].value, ts[best].value) THEN best ELSE id)
         ELSE (IF FracLess(ts[best].value, ts[id].value) THEN best ELSE id)

(* the storage's best-trial cache, updated when trial id is told: only a
   COMPLETE trial can become the best, and only a strictly better one *)
UpdateCache(best, ts, id, direction) ==
    IF ts[id].state # "COMPLETE" THEN best
    ELSE IF best = 0 THEN id
    ELSE IF direction = "maximize"
         THEN (IF FracLess(ts[best].value, ts[id].value) THEN id ELSE best)
         ELSE (IF FracLess(ts[id].value, ts[best].value) THEN id ELSE best)

(* faulty variant: the loop goes on while the elapsed time equals the timeout *)
BudgetSpentLate ==
    \/ Len(trials) >= cfg.trials
    \/ HasTimeout(cfg) /\ clock > cfg.timeout[1]

(* study.optimize's loop condition: n_trials reached, or the timeout elapsed *)
BudgetSpent ==
    \/ Len(trials) >= cfg.trials
    \/ HasTimeout(cfg) /\ clock >= cfg.timeout[1]

(* the arguments obj passes to _run_dada2 *)
Dada2Args ==
    [ trial |-> Len(trials),
      trunc_f |-> Cur.params.trunc_f,
      trunc_r |-> IF cfg.paired THEN Cur.params.trunc_r ELSE 0,
      trim_f |-> cfg.fwd_primer_length,
      trim_r |-> IF cfg.paired THEN cfg.rev_primer_length ELSE 0,
      min_overlap |-> cfg.min_overlap,
      threads |-> cfg.threads,
      paired |-> cfg.paired ]

(* faulty variant: the reverse trim length is taken from the forward primer *)
OutSwappedTrim(best) ==
    IF cfg.paired
    THEN [ trunc_len_f |-> best.trunc_f, trim_left_f |-> cfg.fwd_primer_length,
           min_overlap |-> cfg.min_overlap, n_threads |-> cfg.threads,
           trunc_len_r |-> best.trunc_r, trim_left_r |-> cfg.fwd_primer_length ]
    ELSE [ trunc_len |-> best.trunc_f, trim_left_f |-> cfg.fwd_primer_length,
           min_overlap |-> cfg.min_overlap, n_threads |-> cfg.threads ]

(* the result dict of optimize_truncation *)
Out(best) ==
    IF cfg.paired
    THEN [ trunc_len_f |-> best.trunc_f, trim_left_f |-> cfg.fwd_primer_length,
           min_overlap |-> cfg.min_overlap, n_threads |-> cfg.threads,
           trunc_len_r |-> best.trunc_r, trim_left_r |-> cfg.rev_primer_length ]
    ELSE [ trunc_len |-> best.trunc_f, trim_left_f |-> cfg.fwd_primer_length,
           min_overlap |-> cfg.min_overlap, n_threads |-> cfg.threads ]

StudyJson(out) ==
    [ best_params |-> out,
      best_value |-> trials[best_trial_id].value,
      n_trials |-> Len(trials),
      direction |-> cfg.direction,
      read_lengths |-> [forward |-> cfg.read_fwd, reverse |-> cfg.read_rev],
      paired |-> cfg.paired ]


-----------------------------------------------------------------------------
(* optimize_truncation *)

Init ==
    /\ cfg \in Configs
    /\ pc = "start"
    /\ trials = <<>>
    /\ best_trial_id = 0
    /\ clock = 0
    /\ calls = <<>>
    /\ err = "none"
    /\ md = EmptyMap
    /\ study_json = EmptyMap
    /\ df = <<>>

(* the subsampler accepts a fraction in (0, 1] and raises TypeError otherwise,
   with and without drop_empty *)
FractionOK(f) == 0 < f[1] /\ f[1] <= f[2]

(* _subsample_once, then _make_objective, create_study *)
Subsample ==
    /\ pc = "start"
    /\ IF FractionOK(cfg.fraction)
       THEN pc' = "optimize" /\ err' = err
       ELSE pc' = "error" /\ err' = "TypeError"
    /\ UNCHANGED <<cfg, trials, best_trial_id, clock, calls, md, study_json, df>>

(* wall-clock time passes between trials and while the denoiser runs; it is
   read only when a timeout is given *)
Tick ==
    /\ pc \in {"optimize", "dada2"}
    /\ HasTimeout(cfg)
    /\ clock < MaxClock
    /\ clock' = clock + 1
    /\ UNCHANGED <<cfg, pc, trials, best_trial_id, calls, err, md, study_json, df>>

(* study.optimize: the next trial is created and obj is called with it *)
Ask ==
    /\ pc = "optimize"
    /\ ~BudgetSpent
    /\ trials' = Append(trials, NewTrial(clock))
    /\ pc' = "obj"
    /\ df' = <<>>
    /\ UNCHANGED <<cfg, best_trial_id, clock, calls, err, md, study_json>>

(* study.optimize returns *)
StopLoop ==
    /\ pc = "optimize"
    /\ BudgetSpent
    /\ pc' = "select"
    /\ df' = <<>>
    /\ UNCHANGED <<cfg, trials, best_trial_id, clock, calls, err, md, study_json>>

(* obj: trial.suggest_int("trunc_f", ...) raises ValueError, which
   study.optimize does not catch: the trial fails and the run ends *)
SuggestFRaises ==
    /\ pc = "obj"
    /\ ~IntDistributionOK(cfg.min_trunc, TruncFHigh(cfg), cfg.step)
    /\ trials' = SetCur([Cur EXCEPT !.state = "FAIL"])
    /\ pc' = "error"
    /\ err' = "ValueError"
    /\ UNCHANGED <<cfg, best_trial_id, clock, calls, md, study_json, df>>

(* obj: trunc_f = trial.suggest_int("trunc_f", ...) *)
SuggestF ==
    /\ pc = "obj"
    /\ IntDistributionOK(cfg.min_trunc, TruncFHigh(cfg), cfg.step)
    /\ \E v \in SuggestInt(cfg.min_trunc, TruncFHigh(cfg), cfg.step) :
          trials' = SetCur([Cur EXCEPT !.params = ("trunc_f" :> v)])
    /\ pc' = "region"
    /\ UNCHANGED <<cfg, best_trial_id, clock, calls, err, md, study_json, df>>

(* obj: raise optuna.TrialPruned(); the trial is told PRUNED *)
Prune ==
    /\ pc = "region"
    /\ Infeasible(cfg, Cur.params.trunc_f)
    /\ trials' = SetCur([Cur EXCEPT !.state = "PRUNED"])
    /\ best_trial_id' = UpdateCache(best_trial_id, trials', Len(trials), cfg.direction)
    /\ pc' = "optimize"
    /\ UNCHANGED <<cfg, clock, calls, err, md, study_json, df>>

(* obj, paired: trunc_r = trial.suggest_int("trunc_r", min_r_allow, max_r_allow) *)
SuggestR ==
    /\ pc = "region"
    /\ cfg.paired
    /\ ~Infeasible(cfg, Cur.params.trunc_f)
    /\ LET lo == min_r_allow(cfg, Cur.params.trunc_f)
           hi == max_r_allow(cfg, Cur.params.trunc_f)
       IN  \E v \in SuggestInt(lo, hi, cfg.step) :
              trials' = SetCur([Cur EXCEPT !.params = @ @@ ("trunc_r" :> v)])
    /\ pc' = "dada2"
    /\ UNCHANGED <<cfg, best_trial_id, clock, calls, err, md, study_json, df>>

(* obj, single-end: trunc_r = 0 and trunc_f >= amp_len *)
AcceptSingle ==
    /\ pc = "region"
    /\ ~cfg.paired
    /\ ~Infeasible(cfg, Cur.params.trunc_f)
    /\ pc' = "dada2"
    /\ UNCHANGED <<cfg, trials, best_trial_id, clock, calls, err, md, study_json, df>>

(* faulty variant: the whole message is recorded *)
OnExceptionFullMessage(t, msglen) ==
    [t EXCEPT !.state = "COMPLETE", !.value = Zero, !.errmsg = <<msglen>>]

(* what obj does with an exception of _run_dada2: the attribute set, 0.0 returned *)
OnException(t, msglen) ==
    [t EXCEPT !.state = "COMPLETE", !.value = Zero, !.errmsg = <<Truncate(msglen)>>]

(* obj: _run_dada2 raises; the trial is told its value 0.0 *)
DenoiseRaises ==
    /\ pc = "dada2"
    /\ \E n \in MsgLens :
          /\ calls' = Append(calls, [args |-> Dada2Args, raised |-> TRUE, msglen |-> n])
          /\ trials' = SetCur(OnException(Cur, n))
    /\ best_trial_id' = UpdateCache(best_trial_id, trials', Len(trials), cfg.direction)
    /\ pc' = "optimize"
    /\ UNCHANGED <<cfg, clock, err, md, study_json, df>>

(* obj: _run_dada2 returns the denoising stats, one row per sample *)
DenoiseReturns ==
    /\ pc = "dada2"
    /\ \E t \in Tables(cfg.n_samples) :
          /\ calls' = Append(calls, [args |-> Dada2Args, raised |-> FALSE, msglen |-> 0])
          /\ df' = t
    /\ pc' = "stats"
    /\ UNCHANGED <<cfg, trials, best_trial_id, clock, err, md, study_json>>

(* obj: the score of df is returned and the trial is told its value; df lives
   until study.optimize takes its next step *)
Score ==
    /\ pc = "stats"
    /\ trials' = SetCur([Cur EXCEPT !.state = "COMPLETE", !.value = ScoreOf(df)])
    /\ best_trial_id' = UpdateCache(best_trial_id, trials', Len(trials), cfg.direction)
    /\ pc' = "optimize"
    /\ UNCHANGED <<cfg, clock, calls, err, md, study_json, df>>

(* faulty variant: with no completed trial the lower bounds are returned *)
BestParamsFallback ==
    /\ pc = "select"
    /\ best_trial_id = 0
    /\ LET out == Out([trunc_f |-> cfg.min_trunc, trunc_r |-> cfg.min_trunc])
       IN  md' = ("recommended" :> out) /\ study_json' = [best_params |-> out]
    /\ pc' = "done"
    /\ UNCHANGED <<cfg, trials, best_trial_id, clock, calls, err, df>>

(* study.best_params raises ValueError when no trial is COMPLETE *)
BestParamsRaises ==
    /\ pc = "select"
    /\ best_trial_id = 0
    /\ pc' = "error"
    /\ err' = "NoTrialsCompleted"
    /\ UNCHANGED <<cfg, trials, best_trial_id, clock, calls, md, study_json, df>>

(* best = study.best_params, the result dict, the Metadata and the study JSON *)
Aggregate ==
    /\ pc = "select"
    /\ best_trial_id # 0
    /\ LET out == Out(trials[best_trial_id].params)
       IN  /\ md' = ("recommended" :> out)
           /\ study_json' = StudyJson(out)
    /\ pc' = "done"
    /\ UNCHANGED <<cfg, trials, best_trial_id, clock, calls, err, df>>

Next ==
    \/ Subsample
    \/ Tick
    \/ Ask
    \/ StopLoop
    \/ SuggestFRaises
    \/ SuggestF
    \/ Prune
    \/ SuggestR
    \/ AcceptSingle
    \/ DenoiseRaises
    \/ DenoiseReturns
    \/ Score
    \/ BestParamsRaises
    \/ Aggregate

Spec == Init /\ [][Next]_vars


-----------------------------------------------------------------------------
(* Properties *)

Told(i) == trials[i].state \in {"COMPLETE", "PRUNED"}
Completed == { i \in 1..Len(trials) : trials[i].state = "COMPLETE" }
HasParam(i, name) == name \in DOMAIN trials[i].params
CallsOf(i) == { k \in 1..Len(calls) : calls[k].args.trial = i }

(* the feasible interval of trunc_r as the design states it *)
RegionLow(f) == Max3(cfg.min_trunc, cfg.amplicon_length + cfg.min_overlap - f, 0)
RegionHigh(f) == Min({cfg.max_trunc, cfg.read_rev, cfg.read_fwd + cfg.read_rev - f})
RegionEmpty(f) ==
    IF cfg.paired THEN RegionLow(f) > RegionHigh(f) ELSE f < cfg.amplicon_length

(* C1: in paired mode every candidate the denoiser is invoked with satisfies
   trunc_f + trunc_r >= amplicon_length + min_overlap, trunc_r <= read_rev and
   trunc_f <= read_fwd *)
C1_PairedCallsFeasible ==
    \A k \in 1..Len(calls) :
        LET a == calls[k].args IN
        a.paired =>
            /\ a.trunc_f + a.trunc_r >= cfg.amplicon_length + cfg.min_overlap
            /\ a.trunc_r <= cfg.read_rev
            /\ a.trunc_f <= cfg.read_fwd

(* a paired call that meets the amplicon constraint with nothing to spare, on
   bounds where smaller reverse lengths were within [min_trunc, max_trunc] *)
C1_Witness ==
    \E k \in 1..Len(calls) :
        LET a == calls[k].args IN
        /\ a.paired
        /\ a.trunc_f + a.trunc_r = cfg.amplicon_length + cfg.min_overlap
        /\ a.trunc_r > cfg.min_trunc
        /\ a.trunc_r = cfg.read_rev

(* C2: a trial is pruned exactly when its feasible region is empty (paired:
   min_r > max_r, so min_r = max_r is not pruned; single-end: trunc_f <
   amplicon_length); a pruned trial never invokes the denoiser and has no score,
   and a trial that is not pruned goes on to the denoiser *)
C2_PrunedIffRegionEmpty ==
    \A i \in 1..Len(trials) :
        /\ Told(i) =>
              (trials[i].state = "PRUNED" <=> RegionEmpty(trials[i].params.trunc_f))
        /\ trials[i].state = "PRUNED" =>
              CallsOf(i) = {} /\ trials[i].value = NoValue
        /\ CallsOf(i) # {} => ~RegionEmpty(trials[i].params.trunc_f)
        /\ trials[i].state = "COMPLETE" => CallsOf(i) # {}

(* the boundary case: a paired trial whose region is the single value
   min_r = max_r has invoked the denoiser *)
C2_Witness ==
    \E k \in 1..Len(calls) :
        LET a == calls[k].args IN
        /\ a.paired
        /\ RegionLow(a.trunc_f) = RegionHigh(a.trunc_f)
        /\ trials[a.trial].state = "COMPLETE"

(* C3: when the denoiser raises, the trial is completed with score 0 and the
   message truncated to 200 characters recorded on it, and the run has not
   failed: no exception has left the trial loop *)
C3_FailureAbsorbed ==
    \A k \in 1..Len(calls) :
        calls[k].raised =>
            LET t == trials[calls[k].args.trial] IN
            /\ t.state = "COMPLETE"
            /\ t.value = Zero
            /\ t.errmsg = <<IF calls[k].msglen <= ErrMsgLimit
                            THEN calls[k].msglen ELSE ErrMsgLimit>>
            /\ err = "none"
            /\ pc # "error"

(* the denoiser raised in the first two trials, once with a message longer
   than 200 characters, and a third trial has been started *)
C3_Witness ==
    /\ Len(calls) >= 2
    /\ calls[1].raised /\ calls[1].args.trial = 1
    /\ calls[2].raised /\ calls[2].args.trial = 2
    /\ calls[1].msglen > ErrMsgLimit
    /\ Len(trials) = 3
    /\ pc = "dada2"

RECURSIVE ProdInputs(_)
ProdInputs(t) == IF t = <<>> THEN 1 ELSE Head(t).input * ProdInputs(Tail(t))

(* the sum of non-chimeric/input over the rows, times the product of the inputs *)
RECURSIVE SumSurvival(_)
SumSurvival(t) ==
    IF t = <<>> THEN 0
    ELSE Head(t).nonchim * ProdInputs(Tail(t)) + Head(t).input * SumSurvival(Tail(t))

(* C4: the score of an evaluated trial is in [0,1]; it is the mean over the
   samples of non-chimeric/input when every sample has non-chimeric > 0, and 0
   when some sample has non-chimeric = 0 or when the denoiser raised *)
C4_Score ==
    /\ (pc = "optimize" /\ df # <<>>) =>
          LET v == Cur.value IN
          /\ Cur.state = "COMPLETE"
          /\ v[2] > 0 /\ 0 <= v[1] /\ v[1] <= v[2]
          /\ (\E i \in 1..Len(df) : df[i].nonchim = 0) => v[1] = 0
          /\ (\A i \in 1..Len(df) : df[i].nonchim > 0) =>
                v[1] * Len(df) * ProdInputs(df) = v[2] * SumSurvival(df)
    /\ \A k \in 1..Len(calls) :
          calls[k].raised => trials[calls[k].args.trial].value = Zero

(* a table of three samples with different survival ratios, none of them 0,
   has been scored strictly between 0 and 1 *)
C4_Witness ==
    /\ pc = "optimize"
    /\ Len(df) = 3
    /\ \A i \in 1..Len(df) : df[i].nonchim > 0
    /\ \E i, j \in 1..Len(df) :
          df[i].nonchim * df[j].input # df[j].nonchim * df[i].input
    /\ 0 < Cur.value[1] /\ Cur.value[1] < Cur.value[2]

Better(a, b) ==
    IF cfg.direction = "maximize" THEN FracLess(b, a) ELSE FracLess(a, b)

(* C5: between trials and at completion the selected trial is a completed
   (never a pruned) trial, no completed trial has a better score in the chosen
   direction, and no earlier completed trial has the same score; the returned
   truncation lengths are its parameters *)
C5_BestSelected ==
    pc \in {"optimize", "select", "done"} =>
        /\ (best_trial_id = 0) <=> (Completed = {})
        /\ best_trial_id # 0 =>
              /\ best_trial_id \in Completed
              /\ \A j \in Completed :
                    /\ ~Better(trials[j].value, trials[best_trial_id].value)
                    /\ trials[j].value = trials[best_trial_id].value
                          => best_trial_id <= j
        /\ pc = "done" =>
              LET row == md["recommended"]
                  best == trials[best_trial_id].params
              IN  IF cfg.paired
                  THEN row.trunc_len_f = best.trunc_f /\ row.trunc_len_r = best.trunc_r
                  ELSE row.trunc_len = best.trunc_f

(* a minimizing run of a pruned trial and two trials tied at the lowest score
   has returned the first of the tied *)
C5_Witness ==
    /\ pc = "done"
    /\ cfg.direction = "minimize"
    /\ Len(trials) = 3
    /\ \E i \in 1..Len(trials) : trials[i].state = "PRUNED"
    /\ \E i, j \in Completed : i < j /\ best_trial_id = i
                                     /\ trials[i].value = trials[j].value

(* C6: never more than `trials` trials are run, pruned ones included, and no
   trial is started once the timeout has elapsed *)
C6_BudgetRespected ==
    /\ Len(trials) <= cfg.trials
    /\ \A i \in 1..Len(trials) :
          HasTimeout(cfg) => trials[i].datetime_start < cfg.timeout[1]

(* the loop has ended on the timeout with trial budget left, after a trial *)
C6_Witness ==
    /\ pc = "select"
    /\ HasTimeout(cfg)
    /\ clock >= cfg.timeout[1]
    /\ Len(trials) >= 1
    /\ Len(trials) < cfg.trials

ConfigInconsistent ==
    \/ cfg.min_trunc > cfg.max_trunc
    \/ cfg.step <= 0
    \/ ~(0 < cfg.fraction[1] /\ cfg.fraction[1] <= cfg.fraction[2])

(* C7: with inconsistent bounds (min_trunc > max_trunc, a non-positive step, a
   fraction outside (0,1]) the run fails before any trial is started: no trial,
   no denoiser call, no output *)
C7_ConfigErrorBeforeTrials ==
    ConfigInconsistent =>
        /\ trials = <<>>
        /\ calls = <<>>
        /\ md = EmptyMap /\ study_json = EmptyMap
        /\ pc # "done"

(* C8: when the loop ends with no completed trial the run fails and neither
   output is produced; a run with a completed trial (one scored 0 because the
   denoiser raised included) does not fail this way *)
C8_BudgetExhausted ==
    /\ Completed = {} => best_trial_id = 0 /\ pc # "done"
    /\ (pc = "select" /\ Completed = {}) => ~ENABLED Aggregate
    /\ err = "NoTrialsCompleted" =>
          /\ Completed = {}
          /\ md = EmptyMap /\ study_json = EmptyMap
    /\ (pc = "select" /\ Completed # {}) => ~ENABLED BestParamsRaises
    /\ pc = "done" => md # EmptyMap /\ study_json # EmptyMap

(* a run of three trials, all pruned, has ended in the error *)
C8_Witness ==
    /\ err = "NoTrialsCompleted"
    /\ Len(trials) = 3
    /\ \A i \in 1..Len(trials) : trials[i].state = "PRUNED"

(* C9: on return the table has the single row "recommended" with the best
   trial's truncation length(s), the caller's primer lengths as trim length(s),
   the caller's minimum overlap and thread count; the summary has the same
   parameters, the best score, the number of trials, the direction, the native
   read lengths and the paired flag *)
C9_Outputs ==
    pc = "done" =>
        LET best == trials[best_trial_id] IN
        /\ DOMAIN md = {"recommended"}
        /\ LET row == md["recommended"] IN
           /\ row.trim_left_f = cfg.fwd_primer_length
           /\ row.min_overlap = cfg.min_overlap
           /\ row.n_threads = cfg.threads
           /\ IF cfg.paired
              THEN /\ DOMAIN row = {"trunc_len_f", "trunc_len_r", "trim_left_f",
                                    "trim_left_r", "min_overlap", "n_threads"}
                   /\ row.trunc_len_f = best.params.trunc_f
                   /\ row.trunc_len_r = best.params.trunc_r
                   /\ row.trim_left_r = cfg.rev_primer_length
              ELSE /\ DOMAIN row = {"trunc_len", "trim_left_f", "min_overlap",
                                    "n_threads"}
                   /\ row.trunc_len = best.params.trunc_f
        /\ study_json.best_params = md["recommended"]
        /\ study_json.best_value = best.value
        /\ study_json.n_trials = Len(trials)
        /\ study_json.direction = cfg.direction
        /\ study_json.read_lengths = [forward |-> cfg.read_fwd, reverse |-> cfg.read_rev]
        /\ study_json.paired = cfg.paired

(* a paired run has returned, with all four pass-through values different *)
C9_Witness ==
    /\ pc = "done"
    /\ cfg.paired
    /\ Cardinality({cfg.fwd_primer_length, cfg.rev_primer_length,
                    cfg.min_overlap, cfg.threads}) = 4

OnGlobalGrid(v) == v >= cfg.min_trunc /\ (v - cfg.min_trunc) % cfg.step = 0

TruncFInRange(i) ==
    HasParam(i, "trunc_f") =>
        /\ cfg.min_trunc <= trials[i].params.trunc_f
        /\ trials[i].params.trunc_f <= Min({cfg.max_trunc, cfg.read_fwd})
        /\ OnGlobalGrid(trials[i].params.trunc_f)

(* C10 as stated: min_trunc <= trunc_f <= min(max_trunc, read_fwd), and trunc_f
   and trunc_r are both min_trunc + k*step *)
C10_Original ==
    \A i \in 1..Len(trials) :
        /\ TruncFInRange(i)
        /\ HasParam(i, "trunc_r") => OnGlobalGrid(trials[i].params.trunc_r)

(* C10 as amended: min_trunc <= trunc_f <= min(max_trunc, read_fwd) and trunc_f
   is min_trunc + k*step; trunc_r lies in the trial's feasible interval
   [min_r, max_r] and is min_r + k*step *)
C10_ProposalsOnGrid ==
    \A i \in 1..Len(trials) :
        /\ TruncFInRange(i)
        /\ HasParam(i, "trunc_r") =>
              LET f == trials[i].params.trunc_f
                  r == trials[i].params.trunc_r
              IN  /\ RegionLow(f) <= r /\ r <= RegionHigh(f)
                  /\ (r - RegionLow(f)) % cfg.step = 0

(* a reverse proposal one step above min_r where min_r is off the grid of
   min_trunc, and a forward range whose upper end is off the grid *)
C10_Witness ==
    \E i \in 1..Len(trials) :
        /\ HasParam(i, "trunc_r")
        /\ cfg.step > 1
        /\ trials[i].params.trunc_r = RegionLow(trials[i].params.trunc_f) + cfg.step
        /\ ~OnGlobalGrid(trials[i].params.trunc_r)
        /\ ~OnGlobalGrid(Min({cfg.max_trunc, cfg.read_fwd}))

=============================================================================
